---------------------------- MODULE Spec2Model ----------------------------
(***************************************************************************)
(* The XMODEM-1k style sender of scripts/support/xmodem1k_sender.py:       *)
(* TransferDataCreator (checksum, padding, framing, planning) as           *)
(* operators, and main / FirmwareUploader.upload_data as a state machine   *)
(* run against a serial channel whose receiver is free to send any byte    *)
(* at any time.                                                            *)
(*                                                                         *)
(* Bytes are integers 0..255, byte strings are sequences of bytes.         *)
(***************************************************************************)
EXTENDS Integers, Sequences, FiniteSets, TLC

(***************************************************************************)
(* Bounds of the model.                                                    *)
(***************************************************************************)
\* Payloads hold up to MaxFullBlocks full 1024-byte blocks (plus one byte).
MaxFullBlocks == 1
\* Bytes the receiver has sent at most by the time of the handshake read.
MaxBoot == 2
\* Unread bytes the channel's input buffer holds at most after the handshake.
MaxRx == 2
\* Calls of get_transfer_chunks made at most on one TransferDataCreator.
MaxCalls == 2
\* Length at most of the byte strings (over CrcAlphabet) handed to calc_crc16.
MaxCrcLen == 2

(***************************************************************************)
(* Protocol bytes and header bits (module level of the sender).            *)
(***************************************************************************)
SOH == 1
STX == 2
EOT == 4
ACK == 6
NAK == 21
CAN == 24
PING == 67
NO_VERIFICATION == 1
\* TransferDataCreator.__init__'s default polynomial, 0x1021.
DefaultPolynomial == 4129
\* The two block sizes of _pad_data and the part size of get_transfer_chunks.
SmallBlock == 128
LargeBlock == 1024
\* The block number after which get_transfer_chunks starts again at 0 (0xFF).
LastBlockNum == 255

\* Python's None, for a byte string and for an integer.
NoneBytes == <<-1>>
NoneInt == -1

(***************************************************************************)
(* Bit operations on non-negative integers.                                *)
(***************************************************************************)
XorNibble ==
    [a \in 0..15 |-> [b \in 0..15 |->
        ((a + b) % 2)
        + 2 * (((a \div 2) + (b \div 2)) % 2)
        + 4 * (((a \div 4) + (b \div 4)) % 2)
        + 8 * (((a \div 8) + (b \div 8)) % 2)]]

RECURSIVE Xor(_, _)
Xor(a, b) ==
    IF a = 0 THEN b
    ELSE IF b = 0 THEN a
    ELSE XorNibble[a % 16][b % 16] + 16 * Xor(a \div 16, b \div 16)

(***************************************************************************)
(* TransferDataCreator._calc_crc16_single_byte: the 16 shift steps on the  *)
(* 24-bit working value, then the upper 16 bits.                           *)
(*                                                                         *)
(* Intermediate results are bound as the element of a one-element set      *)
(* (Only), so that each is computed once, as a local variable is.         *)
(***************************************************************************)
Only(S) == CHOOSE v \in S : TRUE

\* Lines 69-73: one pass of the loop body.
crc_shift_once(combined, polynomial) ==
    (IF (combined \div 8388608) % 2 # 0
     THEN Xor(combined * 2, polynomial * 256)
     ELSE combined * 2) % 16777216

RECURSIVE crc_shift(_, _, _)
crc_shift(combined, polynomial, n) ==
    IF n = 0 THEN combined
    ELSE Only({crc_shift(c, polynomial, n - 1) :
                  c \in {crc_shift_once(combined, polynomial)}})

\* Faulty variant of calc_crc16_single_byte: eight shift steps, as the usual
\* 16-bit form has, on the 24-bit working value.
calc_crc16_single_byte_8(byte, crc, polynomial) ==
    Only({(crc_shift(c, polynomial, 8) \div 256) % 65536 :
             c \in {Xor(crc, byte * 256)}})

calc_crc16_single_byte(byte, crc, polynomial) ==
    Only({(crc_shift(c, polynomial, 16) \div 256) % 65536 :
             c \in {Xor(crc, byte * 256)}})

(***************************************************************************)
(* TransferDataCreator.calc_crc16: the bytes of data[lo..hi] folded in     *)
(* order into the running checksum.  The range is halved so that the       *)
(* evaluation depth stays logarithmic; the left half is finished before    *)
(* the right half starts.                                                  *)
(***************************************************************************)
RECURSIVE crc_range(_, _, _, _, _)
crc_range(bytes, lo, hi, crc, polynomial) ==
    IF lo > hi THEN crc
    ELSE IF lo = hi THEN calc_crc16_single_byte(bytes[lo], crc, polynomial)
    ELSE Only({crc_range(bytes, ((lo + hi) \div 2) + 1, hi, left, polynomial) :
                  left \in {crc_range(bytes, lo, (lo + hi) \div 2, crc, polynomial)}})

\* Faulty variant of calc_crc16: the checksum starts at 0 whatever
\* initial_crc is.
calc_crc16_from_zero(bytes, initial_crc, polynomial) ==
    Only({crc_range(b, 1, Len(b), 0, polynomial) : b \in {bytes}})

calc_crc16(bytes, initial_crc, polynomial) ==
    Only({crc_range(b, 1, Len(b), initial_crc, polynomial) : b \in {bytes}})

(***************************************************************************)
(* TransferDataCreator._pad_data: zero bytes up to 128 or 1024.  The       *)
(* assertion current_len <= 1024 is pad_ok; a part that fails it raises    *)
(* AssertionError before any padding.                                      *)
(***************************************************************************)
\* Faulty variant of pad_ok: the length is not checked.
pad_ok_unchecked(bytes) == TRUE

pad_ok(bytes) == Len(bytes) <= LargeBlock

\* Faulty variant of pad_data: the fill byte is SUB (0x1A), as classic XMODEM
\* pads a last block.
pad_data_sub(bytes) ==
    IF Len(bytes) <= SmallBlock
    THEN bytes \o [i \in 1..(SmallBlock - Len(bytes)) |-> 26]
    ELSE bytes \o [i \in 1..(LargeBlock - Len(bytes)) |-> 26]

pad_data(bytes) ==
    IF Len(bytes) <= SmallBlock
    THEN bytes \o [i \in 1..(SmallBlock - Len(bytes)) |-> 0]
    ELSE bytes \o [i \in 1..(LargeBlock - Len(bytes)) |-> 0]

(***************************************************************************)
(* TransferDataCreator._construct_single_chunk.                            *)
(***************************************************************************)
\* Lines 97-103: the marker, the block number and its complement.
chunk_head(bytes, block_num) ==
    <<IF Len(bytes) > SmallBlock THEN STX ELSE SOH, block_num, 255 - block_num>>

\* Faulty variant of construct_single_chunk: the checksum is taken of the
\* data as given, before it is padded.
construct_single_chunk_crc_first(bytes, block_num, polynomial) ==
    Only({ chunk_head(bytes, block_num) \o pad_data(bytes)
           \o <<(crc \div 256) % 256, crc % 256>> :
           crc \in {calc_crc16(bytes, 0, polynomial)} })

construct_single_chunk(bytes, block_num, polynomial) ==
    Only({ chunk_head(bytes, block_num) \o padded
           \o Only({ <<(crc \div 256) % 256, crc % 256>> :
                        crc \in {calc_crc16(padded, 0, polynomial)} }) :
           padded \in {pad_data(bytes)} })

(***************************************************************************)
(* TransferDataCreator.add_header: struct.pack(">LLL", ...).               *)
(***************************************************************************)
\* Faulty variant of pack_L: the bytes in little-endian order ("<LLL").
pack_L_little(v) == <<v % 256, (v \div 256) % 256, (v \div 65536) % 256, (v \div 16777216) % 256>>

pack_L(v) == <<(v \div 16777216) % 256, (v \div 65536) % 256, (v \div 256) % 256, v % 256>>

pack_header(flash_offset, flash_size, flags) ==
    pack_L(flash_offset) \o pack_L(flash_size) \o pack_L(flags)

(***************************************************************************)
(* TransferDataCreator.get_transfer_chunks.                                *)
(***************************************************************************)
\* Faulty variant of data_parts: the rest is appended even when it is empty.
data_parts_always_rest(bytes) ==
    LET full == Len(bytes) \div LargeBlock
    IN  [k \in 1..full |-> SubSeq(bytes, (k - 1) * LargeBlock + 1, k * LargeBlock)]
        \o <<SubSeq(bytes, full * LargeBlock + 1, Len(bytes))>>

\* Faulty variant of data_parts: a part is closed one byte early.
data_parts_short(bytes) ==
    LET size == LargeBlock - 1
        full == Len(bytes) \div size
        rest == Len(bytes) % size
    IN  [k \in 1..full |-> SubSeq(bytes, (k - 1) * size + 1, k * size)]
        \o (IF rest # 0
            THEN <<SubSeq(bytes, full * size + 1, Len(bytes))>>
            ELSE <<>>)

\* Lines 120-132: a part is closed every 1024 bytes, the rest is a last part.
data_parts(bytes) ==
    LET full == Len(bytes) \div LargeBlock
        rest == Len(bytes) % LargeBlock
    IN  [k \in 1..full |-> SubSeq(bytes, (k - 1) * LargeBlock + 1, k * LargeBlock)]
        \o (IF rest # 0
            THEN <<SubSeq(bytes, full * LargeBlock + 1, Len(bytes))>>
            ELSE <<>>)

\* Faulty variant of next_block_num: after 0xFF the numbering starts again
\* at 1, where it started.
next_block_num_from_one(block_num) == IF block_num + 1 > 255 THEN 1 ELSE block_num + 1

\* Lines 143-145: the block number after a payload part.
next_block_num(block_num) == IF block_num + 1 > 255 THEN 0 ELSE block_num + 1

\* The block number of the payload part at position k (1-based), counting from first.
RECURSIVE block_num_at(_, _)
block_num_at(first, k) ==
    IF k = 1 THEN first ELSE next_block_num(block_num_at(first, k - 1))

get_transfer_chunks(bytes, hdr, polynomial) ==
    LET head  == IF hdr # NoneBytes
                 THEN <<construct_single_chunk(hdr, 1, polynomial)>>
                 ELSE <<>>
        first == IF hdr # NoneBytes THEN 2 ELSE 1
    IN  Only({ head \o [k \in 1..Len(parts) |->
                          Only({ construct_single_chunk(part, block_num_at(first, k),
                                                        polynomial) :
                                 part \in {parts[k]} })] :
               parts \in {data_parts(bytes)} })

(***************************************************************************)
(* Inputs: the file's content, the command line, and who calls.            *)
(***************************************************************************)
PayloadByte(i) == (i * 37 + 11) % 256

Payload(n) == [i \in 1..n |-> PayloadByte(i)]

PayloadLens ==
    {0, 1, SmallBlock + 1}
    \cup {k * LargeBlock + 1 : k \in 1..MaxFullBlocks}

FlashOffsets == {NoneInt, 0, 4096}

\* "main": the tool's main(args).  "engine": a caller that builds the
\* TransferDataCreator and the FirmwareUploader itself, as main does in
\* lines 245-253, for a payload of its own.
Entries == {"main", "engine"}

EnginePayloadLens == {0, 1}

\* no_verify only sets a bit of the header: it is varied for one payload.

\* What the receiver puts on the line.  Before the handshake read: the
\* ready marker, and output that is not the ready marker.  After it: the
\* acknowledge, and a reply that is not the acknowledge.
BootBytes == {PING, ACK}
ReplyBytes == {ACK, NAK}

VARIABLES
    entry,          \* who runs the session
    file,           \* content of args.file
    flash_offset,   \* args.flash_offset (NoneInt when absent)
    no_verify,      \* args.no_verify
    pc,             \* position in main / upload_data
    data,           \* TransferDataCreator._data
    header,         \* TransferDataCreator._header
    polynomial,     \* TransferDataCreator._polynomial
    chunks,         \* FirmwareUploader._chunks
    uart,           \* the serial port object: "none", "open", "closed"
    rx,             \* unread bytes in the port's input buffer
    written,        \* every uart.write so far, in order
    read_response,  \* upload_data's read_response
    response,       \* upload_data's response
    empty,          \* upload_data's empty
    eot_reply,      \* what uart.read() returned after EOT
    index,          \* upload_data's index
    progress,       \* the indices of the "Sending chunk" lines printed
    err,            \* the error raised, "" while none
    call,           \* a method of TransferDataCreator called directly: name, arguments
    ret,            \* what that call returned
    part_lens,      \* get_transfer_chunks run step by step: len of each of data_parts
    block_num,      \* get_transfer_chunks's block_num
    heads,          \* the first three bytes of each chunk appended to chunks
    r_argv,         \* the west runner's command line, as the user gave it
    r_args,         \* the runner's parsed arguments (args of do_create)
    r_self,         \* the Xmodem1KSender object: _flash_header, _file, _dev_id
    cmd             \* the command line do_run hands to check_call

vars == <<entry, file, flash_offset, no_verify, pc, data, header, polynomial,
          chunks, uart, rx, written, read_response, response, empty, eot_reply,
          index, progress, err, call, ret, part_lens, block_num, heads,
          r_argv, r_args, r_self, cmd>>

inputs == <<entry, file, flash_offset, no_verify>>
creator == <<data, header, polynomial>>
locals == <<read_response, response, empty, eot_reply, index, progress>>
framing == <<part_lens, block_num, heads>>
runner == <<r_argv, r_args, r_self, cmd>>
unit == <<call, ret, framing>>

\* No method is called directly: main runs (or a caller doing as main does).
NoCall == [method |-> "none", bytes |-> <<>>, num |-> 0, n |-> 0]

\* An argument that was not given, a namespace not yet parsed, no FlashHeader.
NoText == [given |-> FALSE, text |-> <<>>]
NoArgs == [no_header |-> FALSE, no_verify |-> FALSE, flash_offset |-> NoneInt,
           dev_id |-> NoText, file |-> NoText]
NoFlashHeader == [present |-> FALSE, options |-> <<>>]
NoSelf == [flash_header |-> NoFlashHeader, file |-> <<>>, dev_id |-> <<>>]

\* The west runner is not involved.
NoRunner ==
    /\ r_argv = [no_header |-> FALSE, no_verify |-> FALSE, flash_offset |-> NoText,
                 dev_id |-> NoText, file |-> NoText]
    /\ r_args = NoArgs
    /\ r_self = NoSelf
    /\ cmd = <<>>

\* get_transfer_chunks is not run step by step.
NoFraming ==
    /\ part_lens = <<>>
    /\ block_num = 0
    /\ heads = <<>>

Terminal == {"done", "failed"}

Init ==
    /\ entry \in Entries
    /\ file \in {Payload(n) : n \in PayloadLens}
    /\ flash_offset \in FlashOffsets
    /\ no_verify \in BOOLEAN
    /\ entry = "engine" => Len(file) \in EnginePayloadLens
    /\ no_verify => (entry = "main" /\ Len(file) = 1)
    /\ flash_offset = 0 => (entry = "main" /\ Len(file) = 1)
    /\ pc = "main"
    /\ data = <<>>
    /\ header = NoneBytes
    /\ polynomial = DefaultPolynomial
    /\ chunks = <<>>
    /\ uart = "none"
    /\ rx = <<>>
    /\ written = <<>>
    /\ read_response = <<>>
    /\ response = <<>>
    /\ empty = <<>>
    /\ eot_reply = <<>>
    /\ index = 0
    /\ progress = <<>>
    /\ err = ""
    /\ call = NoCall
    /\ ret = <<>>
    /\ NoFraming
    /\ NoRunner

\* raise: the exception leaves upload_data / main; nothing else runs.
Raise(kind) ==
    /\ pc' = "failed"
    /\ err' = kind

(***************************************************************************)
(* main, lines 232-252, and the same construction done by another caller.  *)
(***************************************************************************)
\* Faulty variant of MainReadFile: the length of the file is not checked.
MainReadFile_unchecked ==
    /\ pc = "main"
    /\ entry = "main"
    /\ data' = file
    /\ header' = NoneBytes
    /\ polynomial' = DefaultPolynomial
    /\ pc' = "add_header"
    /\ UNCHANGED <<runner, unit, inputs, chunks, uart, rx, written, locals, err>>

\* Lines 232-245: read the file, refuse an empty one, create the creator.
MainReadFile ==
    /\ pc = "main"
    /\ entry = "main"
    /\ IF Len(file) = 0
       THEN /\ Raise("EmptyPayload")
            /\ UNCHANGED creator
       ELSE /\ data' = file
            /\ header' = NoneBytes
            /\ polynomial' = DefaultPolynomial
            /\ pc' = "add_header"
            /\ err' = err
    /\ UNCHANGED <<runner, unit, inputs, chunks, uart, rx, written, locals>>

\* TransferDataCreator(data), lines 40-43, called directly.
EngineCreate ==
    /\ pc = "main"
    /\ entry = "engine"
    /\ data' = file
    /\ header' = NoneBytes
    /\ polynomial' = DefaultPolynomial
    /\ pc' = "add_header"
    /\ UNCHANGED <<runner, unit, inputs, chunks, uart, rx, written, locals, err>>

\* Lines 241-243: the header flags.
header_flags(noverify) == IF noverify THEN NO_VERIFICATION ELSE 0

\* Lines 247-248 with add_header, lines 45-50.
AddHeader ==
    /\ pc = "add_header"
    /\ header' = IF flash_offset # NoneInt
                 THEN pack_header(flash_offset, Len(data), header_flags(no_verify))
                 ELSE header
    /\ pc' = "plan"
    /\ UNCHANGED <<runner, unit, inputs, data, polynomial, chunks, uart, rx, written, locals, err>>

\* Lines 250-252: the plan is built and handed to the FirmwareUploader.
\* _pad_data's assertion fails the call when a part is longer than a block.
Plan ==
    /\ pc = "plan"
    /\ IF \A k \in 1..Len(data_parts(data)) : pad_ok(data_parts(data)[k])
       THEN /\ chunks' = get_transfer_chunks(data, header, polynomial)
            /\ pc' = "open"
            /\ err' = err
       ELSE /\ Raise("InvalidChunkSize")
            /\ chunks' = chunks
    /\ UNCHANGED <<runner, unit, inputs, creator, uart, rx, written, locals>>

(***************************************************************************)
(* The serial port (pyserial): read() returns one byte, or nothing after   *)
(* its timeout; read_all() returns whatever is buffered.  A buffered byte  *)
(* is recorded with the phase in which it arrived: pre is TRUE for a byte  *)
(* that arrived before the handshake read.                                 *)
(***************************************************************************)
uart_read(buf) == IF buf = <<>> THEN <<>> ELSE <<Head(buf)>>

after_read(buf) == IF buf = <<>> THEN <<>> ELSE Tail(buf)

uart_read_all(buf) == buf

BytesOf(buf) == [i \in 1..Len(buf) |-> buf[i].b]

\* The receiver sends a byte; it waits in the port's input buffer.
Receive ==
    /\ uart = "open"
    /\ pc \notin Terminal
    /\ Len(rx) < (IF pc = "handshake" THEN MaxBoot ELSE MaxRx)
    /\ \E b \in (IF pc = "handshake" THEN BootBytes ELSE ReplyBytes) :
          rx' = Append(rx, [b |-> b, pre |-> (pc = "handshake")])
    /\ UNCHANGED <<runner, unit, inputs, pc, creator, chunks, uart, written, locals, err>>

(***************************************************************************)
(* FirmwareUploader.upload_data, lines 155-204.                            *)
(***************************************************************************)
\* Lines 159-168: the port is opened.
Open ==
    /\ pc = "open"
    /\ uart' = "open"
    /\ pc' = "handshake"
    /\ UNCHANGED <<runner, unit, inputs, creator, chunks, rx, written, locals, err>>

\* Line 177, negated: the bytes read end with the ready marker.
handshake_ok(bytes) == ~(Len(bytes) = 0 \/ bytes[Len(bytes)] # PING)

\* Faulty variant of Handshake: one byte is read with read() where the code
\* drains the buffer with read_all().
Handshake_read_one ==
    /\ pc = "handshake"
    /\ read_response' = uart_read(rx)
    /\ rx' = after_read(rx)
    /\ IF handshake_ok(BytesOf(uart_read(rx)))
       THEN /\ index' = 1
            /\ pc' = "loop"
            /\ err' = err
       ELSE /\ Raise("NoReadyMarker")
            /\ index' = index
    /\ UNCHANGED <<runner, unit, inputs, creator, chunks, uart, written, response, empty,
                   eot_reply, progress>>

\* Lines 174-183: everything buffered is read; it must end with 'C'.
\* pyserial's read_all() is read(in_waiting): it returns bytes, never None,
\* so the read() of line 176 (and the None test of line 194) is not taken.
Handshake ==
    /\ pc = "handshake"
    /\ read_response' = uart_read_all(rx)
    /\ rx' = <<>>
    /\ IF handshake_ok(BytesOf(uart_read_all(rx)))
       THEN /\ index' = 1
            /\ pc' = "loop"
            /\ err' = err
       ELSE /\ Raise("NoReadyMarker")
            /\ index' = index
    /\ UNCHANGED <<runner, unit, inputs, creator, chunks, uart, written, response, empty,
                   eot_reply, progress>>

\* Faulty variant of SendChunk: the next chunk follows without the reply
\* to this one being read.
SendChunk_pipelined ==
    /\ pc = "loop"
    /\ index <= Len(chunks)
    /\ progress' = Append(progress, index)
    /\ written' = Append(written, chunks[index])
    /\ index' = index + 1
    /\ UNCHANGED <<runner, unit, inputs, pc, creator, chunks, uart, rx, read_response, response,
                   empty, eot_reply, err>>

\* Faulty variant of SendChunk: no progress line is printed.
SendChunk_silent ==
    /\ pc = "loop"
    /\ index <= Len(chunks)
    /\ written' = Append(written, chunks[index])
    /\ pc' = "read"
    /\ UNCHANGED <<runner, unit, inputs, creator, chunks, uart, rx, read_response, response,
                   empty, eot_reply, index, progress, err>>

\* Lines 184-190: the progress line, then the chunk is written.
SendChunk ==
    /\ pc = "loop"
    /\ index <= Len(chunks)
    /\ progress' = Append(progress, index)
    /\ written' = Append(written, chunks[index])
    /\ pc' = "read"
    /\ UNCHANGED <<runner, unit, inputs, creator, chunks, uart, rx, read_response, response,
                   empty, eot_reply, index, err>>

\* Faulty variant of ReadResponse: the read has no timeout and returns only
\* once a byte is there.
ReadResponse_blocking ==
    /\ pc = "read"
    /\ rx # <<>>
    /\ response' = uart_read(rx)
    /\ rx' = after_read(rx)
    /\ pc' = "read_all"
    /\ UNCHANGED <<runner, unit, inputs, creator, chunks, uart, written, read_response, empty,
                   eot_reply, index, progress, err>>

\* Line 191: response = uart.read().
ReadResponse ==
    /\ pc = "read"
    /\ response' = uart_read(rx)
    /\ rx' = after_read(rx)
    /\ pc' = "read_all"
    /\ UNCHANGED <<runner, unit, inputs, creator, chunks, uart, written, read_response, empty,
                   eot_reply, index, progress, err>>

\* Faulty variant of reply_ok: any reply at all is taken for the acknowledge.
reply_ok_any_byte(reply, rest) == ~(Len(reply) = 0 \/ Len(rest) # 0)

\* Faulty variant of reply_ok: what read_all() returned is not looked at.
reply_ok_ignore_rest(reply, rest) == ~(reply # <<ACK>>)

\* Line 194, negated: the reply is ACK and nothing else is buffered.
reply_ok(reply, rest) == ~(reply # <<ACK>> \/ Len(rest) # 0)

\* Lines 192-198: empty = uart.read_all(), the check, index += 1.
CheckResponse ==
    /\ pc = "read_all"
    /\ empty' = uart_read_all(rx)
    /\ rx' = <<>>
    /\ IF reply_ok(BytesOf(response), BytesOf(uart_read_all(rx)))
       THEN /\ index' = index + 1
            /\ pc' = "loop"
            /\ err' = err
       ELSE /\ Raise("UnexpectedReply")
            /\ index' = index
    /\ UNCHANGED <<runner, unit, inputs, creator, chunks, uart, written, read_response, response,
                   eot_reply, progress>>

\* Line 200: after the last chunk, EOT is written.
WriteEOT ==
    /\ pc = "loop"
    /\ index > Len(chunks)
    /\ written' = Append(written, <<EOT>>)
    /\ pc' = "read_final"
    /\ UNCHANGED <<runner, unit, inputs, creator, chunks, uart, rx, locals, err>>

\* Faulty variant of eot_ok: a read that timed out passes for the acknowledge.
eot_ok_or_silence(reply) == ~(reply # <<ACK>> /\ reply # <<>>)

\* Line 201, negated: the reply to EOT is ACK.
eot_ok(reply) == ~(reply # <<ACK>>)

\* Lines 201-204: one read after EOT.
ReadFinal ==
    /\ pc = "read_final"
    /\ eot_reply' = uart_read(rx)
    /\ rx' = after_read(rx)
    /\ IF eot_ok(BytesOf(uart_read(rx)))
       THEN /\ pc' = "done"
            /\ err' = err
       ELSE Raise("NoFinalAck")
    /\ UNCHANGED <<runner, unit, inputs, creator, chunks, uart, written, read_response, response,
                   empty, index, progress>>

\* serial.Serial(), uart.read(), uart.read_all() or uart.write() raises
\* SerialException: it leaves upload_data, which handles nothing.  When it
\* is the write of a chunk that raises, the chunk's progress line (lines
\* 185-188) has been printed.
UartCalls == {"open", "handshake", "loop", "read", "read_all", "read_final"}

ChannelFault ==
    /\ pc \in UartCalls
    /\ Raise("ChannelFault")
    /\ progress' = IF pc = "loop" /\ index <= Len(chunks)
                   THEN Append(progress, index)
                   ELSE progress
    /\ UNCHANGED <<runner, unit, inputs, creator, chunks, uart, rx, written, read_response,
                   response, empty, eot_reply, index>>

SenderStep ==
    \/ MainReadFile
    \/ EngineCreate
    \/ AddHeader
    \/ Plan
    \/ Open
    \/ Handshake
    \/ SendChunk
    \/ ReadResponse
    \/ CheckResponse
    \/ WriteEOT
    \/ ReadFinal

Next ==
    \/ SenderStep
    \/ Receive
    \/ ChannelFault

Spec == Init /\ [][Next]_vars

\* The sender is one sequential program whose every call returns: each read
\* has a timeout, so its next statement is eventually executed.  Nothing is
\* assumed of the receiver or of faults.
FairSpec == Spec /\ WF_vars(SenderStep)

(***************************************************************************)
(* Direct calls of TransferDataCreator's methods, by a caller other than   *)
(* main: one TransferDataCreator(data, polynomial) is constructed and one  *)
(* of its methods is called with arguments of the caller's choice.  call   *)
(* holds the method's name, its arguments (bytes: the data argument, num:  *)
(* initial_crc or block_num) and n, the number of times it has returned;   *)
(* ret holds the returned value: a byte string, a list of byte strings,    *)
(* <<crc>> for the integer calc_crc16 returns, NoneBytes when it raised.   *)
(***************************************************************************)
\* The arguments the methods are called with.
UnitPayloadLens ==
    {0, 1, SmallBlock, SmallBlock + 1, (MaxFullBlocks + 1) * LargeBlock}
    \cup {k * LargeBlock + d : k \in 1..MaxFullBlocks, d \in {-1, 0, 1}}

\* The payloads a header is added to.
UnitHeaderLens == {0, 1, LargeBlock + 1}

ContentLens ==
    {0, 1, 12, SmallBlock - 1, SmallBlock, SmallBlock + 1,
     LargeBlock - 1, LargeBlock, LargeBlock + 1, 2 * LargeBlock}

BlockNums == {0, 1, 128, LastBlockNum}

\* Every block number there is, for one short content.
AllBlockNums == 0..LastBlockNum

CrcAlphabet == {0, 1, 128, 255}

RECURSIVE SeqsUpTo(_, _)
SeqsUpTo(S, n) ==
    IF n = 0 THEN {<<>>}
    ELSE LET shorter == SeqsUpTo(S, n - 1)
         IN  shorter \cup {Append(q, x) : q \in shorter, x \in S}

\* "123456789", the usual check input of a CRC.
CheckString == <<49, 50, 51, 52, 53, 54, 55, 56, 57>>

CrcInputs ==
    SeqsUpTo(CrcAlphabet, MaxCrcLen)
    \cup {<<b>> : b \in 0..255}
    \cup {CheckString}

CrcInits == {0, 1, 7439, 32768, 65535}

Polynomials == {DefaultPolynomial, 1, 32773, 65535}

UnitCalls ==
    {[method |-> "calc_crc16", bytes |-> b, num |-> i, n |-> 0] :
        b \in CrcInputs, i \in CrcInits}
    \cup {[method |-> "_pad_data", bytes |-> Payload(l), num |-> 0, n |-> 0] :
        l \in ContentLens}
    \cup {[method |-> "_construct_single_chunk", bytes |-> Payload(l), num |-> b, n |-> 0] :
        l \in ContentLens, b \in BlockNums}
    \cup {[method |-> "_construct_single_chunk", bytes |-> Payload(1), num |-> b, n |-> 0] :
        b \in AllBlockNums}
    \cup {[method |-> "get_transfer_chunks", bytes |-> <<>>, num |-> 0, n |-> 0]}

\* The session's variables while no session runs.
NoSession ==
    /\ chunks = <<>>
    /\ uart = "none"
    /\ rx = <<>>
    /\ written = <<>>
    /\ read_response = <<>>
    /\ response = <<>>
    /\ empty = <<>>
    /\ eot_reply = <<>>
    /\ index = 0
    /\ progress = <<>>

\* TransferDataCreator(file, polynomial) has been constructed, lines 40-43.
UnitInit ==
    /\ call \in UnitCalls
    /\ file \in {Payload(n) : n \in UnitPayloadLens}
    /\ call.method # "get_transfer_chunks" => file = <<>>
    /\ flash_offset \in FlashOffsets
    /\ call.method # "get_transfer_chunks" => flash_offset = NoneInt
    /\ Len(file) \notin UnitHeaderLens => flash_offset = NoneInt
    /\ flash_offset = 0 => Len(file) = 0
    /\ polynomial \in Polynomials
    /\ call.method # "calc_crc16" => polynomial = DefaultPolynomial
    /\ entry = "engine"
    /\ no_verify = FALSE
    /\ pc = "unit"
    /\ data = file
    /\ header = NoneBytes
    /\ NoSession
    /\ NoFraming
    /\ NoRunner
    /\ err = ""
    /\ ret = <<>>

\* add_header, lines 45-50, called before the plan is asked for.
UnitAddHeader ==
    /\ pc = "unit"
    /\ call.method = "get_transfer_chunks"
    /\ call.n = 0
    /\ flash_offset # NoneInt
    /\ header = NoneBytes
    /\ header' = pack_header(flash_offset, Len(data), header_flags(no_verify))
    /\ UNCHANGED <<runner, unit, inputs, pc, data, polynomial, chunks, uart, rx, written,
                   locals, err>>

\* What a call of get_transfer_chunks returns, or that it raised.
plan_result ==
    IF \A parts \in {data_parts(data)} : \A k \in 1..Len(parts) : pad_ok(parts[k])
    THEN /\ ret' = get_transfer_chunks(data, header, polynomial)
         /\ err' = err
    ELSE /\ ret' = NoneBytes
         /\ err' = "InvalidChunkSize"

\* Faulty variant of CallGetTransferChunks: the payload is used up as it is
\* cut into parts.
CallGetTransferChunks_consuming ==
    /\ pc = "unit"
    /\ call.method = "get_transfer_chunks"
    /\ call.n = 0
    /\ flash_offset # NoneInt => header # NoneBytes
    /\ plan_result
    /\ data' = <<>>
    /\ call' = [call EXCEPT !.n = 1]
    /\ UNCHANGED <<runner, framing, inputs, pc, header, polynomial, chunks, uart, rx, written,
                   locals>>

\* get_transfer_chunks(), lines 116-147: nothing of self is assigned.  A
\* caller that adds a header does so first, as main does.
CallGetTransferChunks ==
    /\ pc = "unit"
    /\ call.method = "get_transfer_chunks"
    /\ call.n = 0
    /\ flash_offset # NoneInt => header # NoneBytes
    /\ plan_result
    /\ call' = [call EXCEPT !.n = 1]
    /\ UNCHANGED <<runner, framing, inputs, pc, creator, chunks, uart, rx, written, locals>>

\* get_transfer_chunks() called once more on the same object.
CallGetTransferChunksAgain ==
    /\ pc = "unit"
    /\ call.method = "get_transfer_chunks"
    /\ call.n >= 1
    /\ call.n < MaxCalls
    /\ plan_result
    /\ call' = [call EXCEPT !.n = @ + 1]
    /\ UNCHANGED <<runner, framing, inputs, pc, creator, chunks, uart, rx, written, locals>>

\* _construct_single_chunk(data, block_num), lines 93-114; the assertion of
\* _pad_data (line 83) raises before anything is returned.
CallConstructSingleChunk ==
    /\ pc = "unit"
    /\ call.method = "_construct_single_chunk"
    /\ call.n = 0
    /\ IF pad_ok(call.bytes)
       THEN /\ ret' = construct_single_chunk(call.bytes, call.num, polynomial)
            /\ err' = err
       ELSE /\ ret' = NoneBytes
            /\ err' = "InvalidChunkSize"
    /\ call' = [call EXCEPT !.n = 1]
    /\ UNCHANGED <<runner, framing, inputs, pc, creator, chunks, uart, rx, written, locals>>

\* _pad_data(data), lines 76-91.
CallPadData ==
    /\ pc = "unit"
    /\ call.method = "_pad_data"
    /\ call.n = 0
    /\ IF pad_ok(call.bytes)
       THEN /\ ret' = pad_data(call.bytes)
            /\ err' = err
       ELSE /\ ret' = NoneBytes
            /\ err' = "InvalidChunkSize"
    /\ call' = [call EXCEPT !.n = 1]
    /\ UNCHANGED <<runner, framing, inputs, pc, creator, chunks, uart, rx, written, locals>>

\* calc_crc16(data, initial_crc), lines 52-59.
CallCalcCrc16 ==
    /\ pc = "unit"
    /\ call.method = "calc_crc16"
    /\ call.n = 0
    /\ ret' = <<calc_crc16(call.bytes, call.num, polynomial)>>
    /\ call' = [call EXCEPT !.n = 1]
    /\ UNCHANGED <<runner, framing, inputs, pc, creator, chunks, uart, rx, written, locals, err>>

UnitNext ==
    \/ UnitAddHeader
    \/ CallGetTransferChunks
    \/ CallGetTransferChunksAgain
    \/ CallConstructSingleChunk
    \/ CallPadData
    \/ CallCalcCrc16

UnitSpec == UnitInit /\ [][UnitNext]_vars

(***************************************************************************)
(* get_transfer_chunks run step by step, lines 134-147, on payloads long   *)
(* enough for the block number to pass 0xFF.  Of such a payload only the   *)
(* lengths of its data_parts are held, and of each chunk appended only     *)
(* its first three bytes, which _construct_single_chunk builds from the    *)
(* length of the part and the block number alone.  call.num is the length  *)
(* of the payload.                                                         *)
(***************************************************************************)
Zeros(n) == [i \in 1..n |-> 0]

\* Payloads of 255 and of 256 parts, and short ones.
WrapPayloadLens ==
    {0, 1, LargeBlock, LargeBlock + 1,
     (LastBlockNum - 1) * LargeBlock + 1, LastBlockNum * LargeBlock + 1}

\* Short payloads, planned by a call of get_transfer_chunks as a whole.
WrapCallLens == {0, 1, SmallBlock + 1, LargeBlock, LargeBlock + 1, 2 * LargeBlock + 1}

\* Lines 120-135 have run: data_parts is built, block_num is 1.
WrapLoopInit ==
    /\ \E L \in WrapPayloadLens :
          /\ call = [method |-> "get_transfer_chunks", bytes |-> <<>>, num |-> L, n |-> 0]
          /\ \E parts \in {data_parts(Zeros(L))} :
                part_lens = [k \in 1..Len(parts) |-> Len(parts[k])]
          /\ \E off \in FlashOffsets \ {0} :
                /\ flash_offset = off
                /\ header = IF off # NoneInt THEN pack_header(off, L, 0) ELSE NoneBytes
    /\ file = <<>>
    /\ pc = "frame_header"
    /\ block_num = 1
    /\ heads = <<>>

\* A TransferDataCreator on a short payload, get_transfer_chunks to be called.
WrapCallInit ==
    /\ call = [method |-> "get_transfer_chunks", bytes |-> <<>>, num |-> 0, n |-> 0]
    /\ file \in {Payload(n) : n \in WrapCallLens}
    /\ flash_offset \in FlashOffsets \ {0}
    /\ header = NoneBytes
    /\ pc = "unit"
    /\ NoFraming

WrapInit ==
    /\ WrapLoopInit \/ WrapCallInit
    /\ data = file
    /\ polynomial = DefaultPolynomial
    /\ entry = "engine"
    /\ no_verify = FALSE
    /\ NoSession
    /\ NoRunner
    /\ err = ""
    /\ ret = <<>>

\* Lines 137-139: the header's chunk, with block_num as it is, then + 1.
FrameHeader ==
    /\ pc = "frame_header"
    /\ IF header # NoneBytes
       THEN /\ heads' = Append(heads, chunk_head(header, block_num))
            /\ block_num' = block_num + 1
       ELSE UNCHANGED <<heads, block_num>>
    /\ pc' = "frame_parts"
    /\ UNCHANGED <<runner, call, ret, part_lens, inputs, creator, chunks, uart, rx, written,
                   locals, err>>

\* The parts whose chunk has been appended.
parts_done == Len(heads) - (IF header # NoneBytes THEN 1 ELSE 0)

\* Lines 141-145: one pass of the loop over data_parts.
FramePart ==
    /\ pc = "frame_parts"
    /\ parts_done < Len(part_lens)
    /\ heads' = Append(heads, chunk_head(Zeros(part_lens[parts_done + 1]), block_num))
    /\ block_num' = next_block_num(block_num)
    /\ UNCHANGED <<runner, call, ret, part_lens, inputs, pc, creator, chunks, uart, rx, written,
                   locals, err>>

\* Line 147: the loop is over, chunks is returned.
FrameReturn ==
    /\ pc = "frame_parts"
    /\ parts_done = Len(part_lens)
    /\ pc' = "framed"
    /\ call' = [call EXCEPT !.n = 1]
    /\ UNCHANGED <<runner, ret, framing, inputs, creator, chunks, uart, rx, written, locals, err>>

WrapNext ==
    \/ FrameHeader
    \/ FramePart
    \/ FrameReturn
    \/ UnitAddHeader
    \/ CallGetTransferChunks

WrapSpec == WrapInit /\ [][WrapNext]_vars

(***************************************************************************)
(* The west runner (scripts/west_commands/runners/xmodem1k_sender.py) and  *)
(* the command line it hands to the sender.  A string is the sequence of   *)
(* its characters; a command line is a sequence of strings.                *)
(***************************************************************************)
OptFlashOffset == <<"-", "-", "f", "l", "a", "s", "h", "-", "o", "f", "f", "s", "e", "t">>
OptNoVerify == <<"-", "-", "n", "o", "-", "v", "e", "r", "i", "f", "y">>
OptUartDevice == <<"-", "-", "u", "a", "r", "t", "-", "d", "e", "v", "i", "c", "e">>
OptFile == <<"-", "-", "f", "i", "l", "e">>
Executable == <<"p", "y", "t", "h", "o", "n", "3">>
ScriptPath ==
    <<"s", "c", "r", "i", "p", "t", "s", "/", "s", "u", "p", "p", "o", "r", "t", "/",
      "x", "m", "o", "d", "e", "m", "1", "k", "_", "s", "e", "n", "d", "e", "r",
      ".", "p", "y">>
DefaultDevId == <<"/", "d", "e", "v", "/", "t", "t", "y", "A", "C", "M", "0">>
PyNone == <<"N", "o", "n", "e">>

\* The digits of Python's integer literals, by value; upper case likewise.
Digits == <<"0", "1", "2", "3", "4", "5", "6", "7", "8", "9", "a", "b", "c", "d", "e", "f">>
UpperDigits == <<"0", "1", "2", "3", "4", "5", "6", "7", "8", "9", "A", "B", "C", "D", "E", "F">>

is_digit(c, base) == \E i \in 1..base : Digits[i] = c \/ UpperDigits[i] = c

digit_value(c) == (CHOOSE i \in 1..16 : Digits[i] = c \/ UpperDigits[i] = c) - 1

\* str(offset) of line 18: "None" for None, else the decimal digits.
RECURSIVE decimal(_)
decimal(n) ==
    IF n < 10 THEN <<Digits[n + 1]>>
    ELSE Append(decimal(n \div 10), Digits[(n % 10) + 1])

py_str(v) == IF v = NoneInt THEN PyNone ELSE decimal(v)

\* int(i, 0): an optional sign, then a literal whose base its prefix gives
\* (0x, 0o, 0b, else decimal); a decimal literal other than zero has no
\* leading zero.  Blanks and underscores, which int() also takes, are not
\* among the texts considered.
strip_sign(text) ==
    IF text # <<>> /\ text[1] \in {"+", "-"} THEN Tail(text) ELSE text

literal_base(t) ==
    IF Len(t) >= 2 /\ t[1] = "0" /\ t[2] \in {"x", "X"} THEN 16
    ELSE IF Len(t) >= 2 /\ t[1] = "0" /\ t[2] \in {"o", "O"} THEN 8
    ELSE IF Len(t) >= 2 /\ t[1] = "0" /\ t[2] \in {"b", "B"} THEN 2
    ELSE 10

literal_digits(t) == IF literal_base(t) = 10 THEN t ELSE SubSeq(t, 3, Len(t))

int_literal_ok(text) ==
    LET t == strip_sign(text)
        base == literal_base(t)
        ds == literal_digits(t)
    IN  /\ ds # <<>>
        /\ \A i \in 1..Len(ds) : is_digit(ds[i], base)
        /\ (base = 10 /\ ds[1] = "0") => \A i \in 1..Len(ds) : ds[i] = "0"

RECURSIVE digits_value(_, _)
digits_value(ds, base) ==
    IF ds = <<>> THEN 0
    ELSE digits_value(SubSeq(ds, 1, Len(ds) - 1), base) * base
         + digit_value(ds[Len(ds)])

\* The value int(text, 0) returns for a text it accepts.
int_auto_base(text) ==
    LET t == strip_sign(text)
        v == digits_value(literal_digits(t), literal_base(t))
    IN  IF text[1] = "-" THEN 0 - v ELSE v

\* FlashHeader(offset, further_options)._options, lines 17-19.
FlashHeader(offset, further_options) ==
    <<OptFlashOffset, py_str(offset)>> \o further_options

\* The sender's argument parser, lines 207-219, over the arguments after the
\* script's path: --file, --uart-device and --flash-offset take one value,
\* --no-verify none; anything else is not recognised.
NoNamespace == [error |-> FALSE, file |-> NoText, uart_device |-> NoText,
                flash_offset |-> NoneInt, no_verify |-> FALSE]

RECURSIVE scan_arguments(_, _, _)
scan_arguments(argv, i, ns) ==
    IF ns.error \/ i > Len(argv) THEN ns
    ELSE IF argv[i] = OptNoVerify
    THEN scan_arguments(argv, i + 1, [ns EXCEPT !.no_verify = TRUE])
    ELSE IF argv[i] \notin {OptFile, OptUartDevice, OptFlashOffset} \/ i = Len(argv)
    THEN [ns EXCEPT !.error = TRUE]
    ELSE IF argv[i] = OptFile
    THEN scan_arguments(argv, i + 2,
             [ns EXCEPT !.file = [given |-> TRUE, text |-> argv[i + 1]]])
    ELSE IF argv[i] = OptUartDevice
    THEN scan_arguments(argv, i + 2,
             [ns EXCEPT !.uart_device = [given |-> TRUE, text |-> argv[i + 1]]])
    ELSE IF int_literal_ok(argv[i + 1])
    THEN scan_arguments(argv, i + 2,
             [ns EXCEPT !.flash_offset = int_auto_base(argv[i + 1])])
    ELSE [ns EXCEPT !.error = TRUE]

parse_arguments(argv) ==
    LET ns == scan_arguments(argv, 1, NoNamespace)
    IN  [ns EXCEPT !.error = ns.error \/ ~ns.file.given \/ ~ns.uart_device.given]

\* What the user may write after --flash-offset, --dev-id and --file.
OffsetTexts ==
    {<<"0">>,
     <<"0", "0">>,
     <<"7">>,
     <<"4", "0", "9", "6">>,
     <<"0", "x", "1", "0", "0", "0">>,
     <<"0", "X", "1", "f">>,
     <<"0", "o", "1", "7">>,
     <<"0", "b", "1", "0", "1">>,
     <<"+", "1", "6">>,
     <<"0", "1", "0">>,
     <<>>,
     <<"0", "x">>,
     <<"1", "2", "a">>,
     <<"N", "o", "n", "e">>}

DevIds == {<<"C", "O", "M", "0">>}

FileNames == {<<"z", "e", "p", "h", "y", "r", ".", "b", "i", "n">>}

Given(texts) == {[given |-> TRUE, text |-> t] : t \in texts}

RunnerArgvs ==
    [no_header : BOOLEAN, no_verify : BOOLEAN,
     flash_offset : {NoText} \cup Given(OffsetTexts),
     dev_id : {NoText} \cup Given(DevIds),
     file : {NoText} \cup Given(FileNames)]

\* west flash --runner xmodem1k_sender is started with some command line.
RunnerInit ==
    /\ r_argv \in RunnerArgvs
    /\ r_args = NoArgs
    /\ r_self = NoSelf
    /\ cmd = <<>>
    /\ pc = "west"
    /\ entry = "main"
    /\ file = <<>>
    /\ flash_offset = NoneInt
    /\ no_verify = FALSE
    /\ data = <<>>
    /\ header = NoneBytes
    /\ polynomial = DefaultPolynomial
    /\ NoSession
    /\ NoFraming
    /\ call = NoCall
    /\ ret = <<>>
    /\ err = ""

\* The runner's parser, lines 61-78: --flash-offset is converted by
\* int(i, 0), a text it rejects ends the command; the offset is None when
\* the option is absent.
WestParse ==
    /\ pc = "west"
    /\ IF r_argv.flash_offset.given /\ ~int_literal_ok(r_argv.flash_offset.text)
       THEN /\ pc' = "failed"
            /\ err' = "ArgumentError"
            /\ UNCHANGED r_args
       ELSE /\ r_args' = [no_header |-> r_argv.no_header,
                          no_verify |-> r_argv.no_verify,
                          flash_offset |->
                              IF r_argv.flash_offset.given
                              THEN int_auto_base(r_argv.flash_offset.text)
                              ELSE NoneInt,
                          dev_id |-> r_argv.dev_id,
                          file |-> r_argv.file]
            /\ pc' = "create"
            /\ UNCHANGED err
    /\ UNCHANGED <<r_argv, r_self, cmd, unit, inputs, creator, chunks, uart, rx,
                   written, locals>>

\* do_create, lines 88-97, and Xmodem1KSender.__init__, lines 29-50.
DoCreate ==
    /\ pc = "create"
    /\ LET extra_options == IF r_args.no_verify THEN <<OptNoVerify>> ELSE <<>>
           flash_header ==
               IF ~r_args.no_header
               THEN [present |-> TRUE,
                     options |-> FlashHeader(r_args.flash_offset, extra_options)]
               ELSE NoFlashHeader
       IN  IF ~r_args.file.given
           THEN /\ pc' = "failed"
                /\ err' = "RuntimeError"
                /\ UNCHANGED r_self
           ELSE /\ r_self' = [flash_header |-> flash_header,
                              file |-> r_args.file.text,
                              dev_id |-> IF r_args.dev_id.given
                                         THEN r_args.dev_id.text
                                         ELSE DefaultDevId]
                /\ pc' = "run"
                /\ UNCHANGED err
    /\ UNCHANGED <<r_argv, r_args, cmd, unit, inputs, creator, chunks, uart, rx,
                   written, locals>>

\* do_run, lines 99-119: the command line is built and the sender started.
DoRun ==
    /\ pc = "run"
    /\ cmd' = <<Executable, ScriptPath, OptUartDevice, r_self.dev_id,
                OptFile, r_self.file>>
              \o (IF r_self.flash_header.present
                  THEN r_self.flash_header.options
                  ELSE <<>>)
    /\ pc' = "sender_args"
    /\ UNCHANGED <<r_argv, r_args, r_self, unit, inputs, creator, chunks, uart,
                   rx, written, locals, err>>

\* The sender parses its command line, line 219; main would follow.
ParseArguments ==
    /\ pc = "sender_args"
    /\ LET args == parse_arguments(SubSeq(cmd, 3, Len(cmd)))
       IN  IF args.error
           THEN /\ pc' = "failed"
                /\ err' = "ArgumentError"
                /\ UNCHANGED <<flash_offset, no_verify>>
           ELSE /\ flash_offset' = args.flash_offset
                /\ no_verify' = args.no_verify
                /\ pc' = "sender_main"
                /\ UNCHANGED err
    /\ UNCHANGED <<runner, unit, entry, file, creator, chunks, uart, rx,
                   written, locals>>

RunnerNext ==
    \/ WestParse
    \/ DoCreate
    \/ DoRun
    \/ ParseArguments

RunnerSpec == RunnerInit /\ [][RunnerNext]_vars

(***************************************************************************)
(* Properties of the session.                                              *)
(***************************************************************************)
EndsWithPing(buf) == Len(buf) > 0 /\ buf[Len(buf)].b = PING

IsAck(buf) == BytesOf(buf) = <<ACK>>

\* The writes so far are the first frames of the plan, in order, then EOT.
WrittenInPlanOrder ==
    /\ Len(written) <= Len(chunks) + 1
    /\ \A k \in 1..Len(written) :
          written[k] = IF k <= Len(chunks) THEN chunks[k] ELSE <<EOT>>

\* The writes so far are exactly the frames up to and including the current one.
WrittenUpToIndex ==
    /\ index <= Len(chunks)
    /\ written = SubSeq(chunks, 1, index)

\* C1: no retry.  When the one reply read after writing a frame is not the
\* acknowledge (another byte, or nothing after the timeout), the session
\* ends in Failed(UnexpectedReply) at that frame's index (or in ChannelFault
\* when read_all() itself raises), and once it has failed that way nothing
\* is written any more: no further frame, no retransmission, no EOT.
C1_NoRetry ==
    /\ [][(pc = "read_all" /\ ~IsAck(response) /\ pc' # "read_all")
            => /\ pc' = "failed"
               /\ err' \in {"UnexpectedReply", "ChannelFault"}
               /\ index' = index
               /\ written' = written]_vars
    /\ [][err = "UnexpectedReply"
            => pc' = "failed" /\ err' = err /\ index' = index /\ written' = written]_vars
    /\ [](err = "UnexpectedReply" => pc = "failed" /\ WrittenUpToIndex)

\* A negative acknowledge to the second of three frames ended the session.
C1_Witness ==
    /\ err = "UnexpectedReply"
    /\ BytesOf(response) = <<NAK>>
    /\ index = 2
    /\ Len(chunks) = 3
    /\ Len(written) = 2

\* C2: stop and wait.  The writes are the frames in plan order, each at
\* most once; a write appends one item and leaves the sender waiting for a
\* read, and no write happens while it waits; any write after the first
\* follows a reply that was exactly the acknowledge with nothing else
\* buffered behind it.
C2_StopAndWait ==
    /\ []WrittenInPlanOrder
    /\ [][written' # written
            => /\ written' = Append(written, written'[Len(written')])
               /\ pc = "loop"
               /\ pc' \in {"read", "read_final"}
               /\ written # <<>> => (IsAck(response) /\ empty = <<>>)]_vars
    /\ [](pc \in {"read", "read_all"} => Len(written) = index)
    /\ [](pc = "loop" => Len(written) = index - 1)

\* The third frame of a plan has been written.
C2_Witness ==
    /\ Len(chunks) = 3
    /\ Len(written) = 3
    /\ pc = "read"

\* C3: the handshake gate.  Nothing is written unless the handshake read
\* returned bytes that end with the ready marker; without them the session
\* is Failed(NoReadyMarker) with nothing written; bytes in front of the
\* final ready marker do not prevent success; and no byte that was buffered
\* by the time of the handshake read is later taken as (part of) a reply.
C3_HandshakeGate ==
    /\ written # <<>> => EndsWithPing(read_response)
    /\ err = "NoReadyMarker"
         => pc = "failed" /\ written = <<>> /\ ~EndsWithPing(read_response)
    /\ (pc \in {"loop", "read", "read_all", "read_final", "done"}
         \/ err \in {"UnexpectedReply", "NoFinalAck"})
         => EndsWithPing(read_response)
    /\ EndsWithPing(read_response) => err # "NoReadyMarker" /\ pc # "handshake"
    /\ \A i \in 1..Len(read_response) : read_response[i].pre
    /\ \A i \in 1..Len(response) : ~response[i].pre
    /\ \A i \in 1..Len(empty) : ~empty[i].pre
    /\ \A i \in 1..Len(eot_reply) : ~eot_reply[i].pre
    /\ pc \in {"loop", "read", "read_all", "read_final", "done"}
         => \A i \in 1..Len(rx) : ~rx[i].pre

\* Boot output in front of the ready marker, and a frame acknowledged after it.
C3_Witness ==
    /\ Len(read_response) = 2
    /\ read_response[1].b # PING
    /\ written # <<>>
    /\ IsAck(response)

\* C4: completion.  A Completed session had a successful handshake, wrote
\* exactly plan[0], ..., plan[n-1] and then one EOT, had its last frame
\* acknowledged, announced every frame, and read the acknowledge after EOT.
\* Failed(NoFinalAck) is the outcome after EOT exactly when the one reply
\* read is not the acknowledge (unless the read itself raises).
C4_Completion ==
    /\ [](pc = "done"
            => /\ err = ""
               /\ EndsWithPing(read_response)
               /\ written = chunks \o << <<EOT>> >>
               /\ \A k \in 1..Len(chunks) : chunks[k] # <<EOT>>
               /\ index = Len(chunks) + 1
               /\ progress = [k \in 1..Len(chunks) |-> k]
               /\ chunks # <<>> => (IsAck(response) /\ empty = <<>>)
               /\ IsAck(eot_reply))
    /\ [](err = "NoFinalAck"
            => /\ pc = "failed"
               /\ ~IsAck(eot_reply)
               /\ written = chunks \o << <<EOT>> >>)
    /\ [][(pc = "read_final" /\ pc' # "read_final")
            => \/ pc' = "done" /\ IsAck(eot_reply')
               \/ pc' = "failed" /\ err' = "NoFinalAck" /\ ~IsAck(eot_reply')
               \/ pc' = "failed" /\ err' = "ChannelFault"]_vars

\* A plan of three frames was sent and completed.
C4_Witness ==
    /\ pc = "done"
    /\ Len(chunks) = 3
    /\ Len(written) = 4

\* C5: stray bytes.  Whenever read_all() after a frame's reply returned
\* anything, the acknowledge included, the session is
\* Failed(UnexpectedReply) at that frame's index, with the frames up to it
\* written and nothing after: neither the next frame nor EOT.
C5_StrayBytes ==
    empty # <<>>
        => /\ pc = "failed"
           /\ err = "UnexpectedReply"
           /\ WrittenUpToIndex

\* The first of several frames was acknowledged, with one more byte behind.
C5_Witness ==
    /\ IsAck(response)
    /\ Len(empty) = 1
    /\ index = 1
    /\ Len(chunks) > 1
    /\ err = "UnexpectedReply"

\* C6: the acknowledge of EOT is checked like a data frame's, so a session
\* does not end Completed while bytes that came with the acknowledge of EOT
\* are still unread in the channel.
C6_EotAckWithoutStrayBytes ==
    pc = "done" => rx = <<>>

\* C7: the channel is closed on every exit path: no terminal state of the
\* session, Completed or Failed, has the serial port still open.
C7_ClosedOnEveryExit ==
    pc \in Terminal => uart # "open"

\* C8: termination.  With every read returning within its timeout, the
\* session eventually is Completed or Failed, whatever the receiver does;
\* and a read that returns nothing leads to the Failed state of its phase:
\* NoReadyMarker at the handshake, UnexpectedReply for a frame, NoFinalAck
\* after EOT (or ChannelFault when the call raises instead).
C8_Termination ==
    /\ <>(pc \in Terminal)
    /\ [][(pc = "handshake" /\ rx = <<>> /\ pc' # pc)
            => pc' = "failed" /\ err' \in {"NoReadyMarker", "ChannelFault"}]_vars
    /\ [][(pc = "read_all" /\ response = <<>> /\ pc' # pc)
            => pc' = "failed" /\ err' \in {"UnexpectedReply", "ChannelFault"}]_vars
    /\ [][(pc = "read_final" /\ rx = <<>> /\ pc' # pc)
            => pc' = "failed" /\ err' \in {"NoFinalAck", "ChannelFault"}]_vars
    /\ [][(pc \in Terminal) => vars' = vars]_vars

\* The receiver fell silent after the first frame of a longer plan.
C8_Witness ==
    /\ pc = "failed"
    /\ err = "UnexpectedReply"
    /\ response = <<>>
    /\ empty = <<>>
    /\ Len(chunks) > 1

\* The plan has been built (get_transfer_chunks has returned).
Planned ==
    \/ pc \in {"open", "handshake", "loop", "read", "read_all", "read_final", "done"}
    \/ pc = "failed" /\ err \notin {"EmptyPayload", "InvalidChunkSize"}

\* C9: the empty plan.  An empty payload without a header is planned as
\* zero frames; a session on an empty plan writes no frame and announces
\* none, writes nothing before a successful handshake, then writes EOT as
\* its only write, and is Completed once the reply read is the acknowledge.
C9_EmptyPlan ==
    /\ (Planned /\ data = <<>> /\ header = NoneBytes) => chunks = <<>>
    /\ (Planned /\ chunks = <<>>)
         => /\ progress = <<>>
            /\ written \in {<<>>, << <<EOT>> >>}
            /\ written # <<>> => EndsWithPing(read_response)
            /\ pc \in {"read_final", "done"} => written = << <<EOT>> >>
            /\ err = "NoFinalAck" => written = << <<EOT>> >>
            /\ IsAck(eot_reply) => pc = "done"
            /\ pc = "done" => IsAck(eot_reply)

\* An empty payload without a header was transferred.
C9_Witness ==
    /\ pc = "done"
    /\ file = <<>>
    /\ header = NoneBytes
    /\ chunks = <<>>
    /\ written = << <<EOT>> >>

\* C10 as claimed: the tool run on a zero-length file does not fail before
\* the session starts (before the port is opened).
C10_EmptyFileReachesSession ==
    (entry = "main" /\ file = <<>>) => ~(pc = "failed" /\ uart = "none")

\* C10 as the code has it: main refuses a zero-length file.  It raises right
\* after reading it, and then no plan is built, the port is never opened
\* and nothing is written; a caller that builds the uploader itself is not
\* refused.
C10_EmptyFileRefused ==
    /\ (entry = "main" /\ file = <<>>)
         => /\ pc \in {"main", "failed"}
            /\ pc = "failed" => err = "EmptyPayload"
            /\ data = <<>> /\ chunks = <<>>
            /\ uart = "none"
            /\ written = <<>>
    /\ err = "EmptyPayload" => (entry = "main" /\ file = <<>>)

\* main was run on a zero-length file and has raised.
C10_Witness ==
    /\ entry = "main"
    /\ file = <<>>
    /\ pc = "failed"
    /\ err = "EmptyPayload"

(***************************************************************************)
(* Properties of the plan and of the frames.                               *)
(***************************************************************************)
\* A call has returned a value (it did not raise).
Returned(method) == call.method = method /\ call.n >= 1 /\ err = ""

\* The sequence number a frame carries in its second byte.
SeqOf(frame) == frame[2]

\* The frames at positions 1..Len(seqs) carry (k + 1) mod 256 at 0-based
\* position k, each follows its predecessor by one or by 255 -> 0, and up
\* to 255 frames carry no number twice.
NumberedInOrder(seqs) ==
    /\ \A k \in 1..Len(seqs) : seqs[k] = k % 256
    /\ \A k \in 2..Len(seqs) :
          seqs[k] = IF seqs[k - 1] = 255 THEN 0 ELSE seqs[k - 1] + 1
    /\ seqs # <<>> => seqs[1] = 1
    /\ Len(seqs) <= 255 => \A j, k \in 1..Len(seqs) : seqs[j] = seqs[k] => j = k

\* C11: sequence numbering.  In every plan the frame at 0-based position k
\* carries sequence number (k + 1) mod 256: the header, if there is one, has
\* 1 and the payload blocks go on from 2, else the payload blocks start at
\* 1; the frame after 255 carries 0; and in a plan of at most 255 frames
\* no two frames carry the same sequence number.  This holds of the frames
\* of the plans returned, and of the chunks appended so far at every pass
\* of the planner's loop; the planner appends one chunk per part, after
\* the header's.
C11_SequenceNumbers ==
    /\ Returned("get_transfer_chunks") /\ pc = "unit"
         => /\ NumberedInOrder([k \in 1..Len(ret) |-> SeqOf(ret[k])])
            /\ (header # NoneBytes /\ Len(ret) > 1) => SeqOf(ret[2]) = 2
    /\ pc \in {"frame_header", "frame_parts", "framed"}
         => /\ NumberedInOrder([k \in 1..Len(heads) |-> SeqOf(heads[k])])
            /\ \A k \in 1..Len(heads) : heads[k][3] = 255 - SeqOf(heads[k])
            /\ (header # NoneBytes /\ Len(heads) > 1) => SeqOf(heads[2]) = 2
            /\ pc = "framed"
                 => Len(heads) = Len(part_lens) + (IF header # NoneBytes THEN 1 ELSE 0)

\* A plan of 257 frames, the header and 256 parts: the 255th frame carries
\* 255, the next 0, and the last 1.
C11_Witness ==
    /\ pc = "framed"
    /\ Len(heads) = 257
    /\ SeqOf(heads[255]) = 255
    /\ SeqOf(heads[256]) = 0
    /\ SeqOf(heads[257]) = 1

\* The padded block of a frame: what lies between its first three bytes and
\* its last two.
BlockOf(frame) == SubSeq(frame, 4, Len(frame) - 2)

\* The frames of a returned plan that carry payload, in order.
HeaderFrames == IF header # NoneBytes THEN 1 ELSE 0

PayloadFrames == SubSeq(ret, HeaderFrames + 1, Len(ret))

\* C12: frame count and segmentation.  For a payload of length L the plan
\* has ceil(L / 1024) frames without a header and one more with a header;
\* every payload frame but the last holds exactly the next 1024 bytes of the
\* payload, the last holds the remaining 1..1024 bytes, and no frame holds
\* none.
C12_FrameCount ==
    (Returned("get_transfer_chunks") /\ pc = "unit")
        => LET L == Len(data)
               n == Len(ret) - HeaderFrames
               last == L - (n - 1) * 1024
           IN  /\ n = (L + 1023) \div 1024
               /\ (n = 0 /\ L = 0) \/ (n > 0 /\ (n - 1) * 1024 < L /\ L <= n * 1024)
               /\ Len(ret) = n + (IF header # NoneBytes THEN 1 ELSE 0)
               /\ \A j \in 1..(n - 1) :
                     /\ Len(BlockOf(PayloadFrames[j])) = 1024
                     /\ BlockOf(PayloadFrames[j])
                          = SubSeq(data, (j - 1) * 1024 + 1, j * 1024)
               /\ n > 0
                     => /\ last \in 1..1024
                        /\ SubSeq(BlockOf(PayloadFrames[n]), 1, last)
                             = SubSeq(data, (n - 1) * 1024 + 1, L)
                        /\ \A i \in (last + 1)..Len(BlockOf(PayloadFrames[n])) :
                              BlockOf(PayloadFrames[n])[i] = 0

\* Two full blocks and nothing more: a plan of two frames; and a full block
\* and a byte behind a header: three.
C12_Witness ==
    /\ Returned("get_transfer_chunks")
    /\ pc = "unit"
    /\ \/ Len(data) = 2 * LargeBlock /\ header = NoneBytes /\ Len(ret) = 2
       \/ Len(data) = LargeBlock + 1 /\ header # NoneBytes /\ Len(ret) = 3

(***************************************************************************)
(* The reference the checksum is compared with: CRC-16/XMODEM as usually   *)
(* written, on a 16-bit value: crc ^= byte << 8, then eight times: shift   *)
(* left, XOR with the polynomial when bit 15 was set, keep 16 bits.        *)
(***************************************************************************)
RefShift(crc, poly) ==
    IF crc >= 32768 THEN Xor((crc * 2) % 65536, poly) ELSE (crc * 2) % 65536

RECURSIVE RefShifts(_, _, _)
RefShifts(crc, poly, n) ==
    IF n = 0 THEN crc
    ELSE Only({RefShifts(c, poly, n - 1) : c \in {RefShift(crc, poly)}})

RefByte(crc, byte, poly) ==
    Only({RefShifts(c, poly, 8) : c \in {Xor(crc, byte * 256)}})

RECURSIVE RefRange(_, _, _, _, _)
RefRange(bytes, lo, hi, crc, poly) ==
    IF lo > hi THEN crc
    ELSE IF lo = hi THEN RefByte(crc, bytes[lo], poly)
    ELSE Only({RefRange(bytes, ((lo + hi) \div 2) + 1, hi, left, poly) :
                  left \in {RefRange(bytes, lo, (lo + hi) \div 2, crc, poly)}})

RefCrc16(bytes, init, poly) ==
    Only({RefRange(b, 1, Len(b), init, poly) : b \in {bytes}})

\* The layout of a frame built for call.bytes and call.num, all but its
\* length: marker by size class, seq, 0xFF - seq, the content followed by
\* zeros up to 128 or 1024 bytes, and as last two bytes the CRC-16
\* (polynomial 0x1021, initial value 0), high byte first, of that block alone.
LayoutOf(frame, content, seq) ==
    LET n == Len(content)
        size == IF n <= 128 THEN 128 ELSE 1024
    IN  /\ n <= 1024
        /\ \A i \in 1..Len(frame) : frame[i] \in 0..255
        /\ frame[1] = IF n <= 128 THEN 1 ELSE 2
        /\ frame[2] = seq
        /\ frame[3] = 255 - seq
        /\ Len(BlockOf(frame)) = size
        /\ SubSeq(frame, 4, 3 + n) = content
        /\ \A i \in (4 + n)..(3 + size) : frame[i] = 0
        /\ frame[Len(frame) - 1] * 256 + frame[Len(frame)]
             = RefCrc16(BlockOf(frame), 0, 4129)

\* C13 as claimed: the frame has that layout, and content of up to 128 bytes
\* gives a frame of 134 bytes in all, content of 129..1024 bytes one of 1030.
C13_FrameLayoutAsClaimed ==
    Returned("_construct_single_chunk")
        => /\ LayoutOf(ret, call.bytes, call.num)
           /\ Len(ret) = IF Len(call.bytes) <= 128 THEN 134 ELSE 1030

\* C13 as the code has it: frame layout.  For content of length n <= 1024
\* and block number seq the frame built is marker | seq | 0xFF - seq |
\* padded block | crc_hi | crc_lo: n <= 128 gives marker 0x01 and a block of
\* 128 bytes, n in 129..1024 gives marker 0x02 and a block of 1024 bytes; the
\* third byte is 0xFF - seq; the last two bytes are the big-endian CRC-16
\* (polynomial 0x1021, initial value 0) of the block alone, whatever the
\* marker and seq.  The frame is three bytes, the block and two bytes long:
\* 133 bytes for the small block and 1029 for the large one.
C13_FrameLayout ==
    Returned("_construct_single_chunk")
        => /\ LayoutOf(ret, call.bytes, call.num)
           /\ Len(ret) = 3 + Len(BlockOf(ret)) + 2
           /\ Len(ret) = IF Len(call.bytes) <= 128 THEN 133 ELSE 1029

\* A frame for 129 bytes with block number 255, one for 128 bytes with
\* block number 0, or one for no bytes at all.
C13_Witness ==
    /\ Returned("_construct_single_chunk")
    /\ \/ Len(call.bytes) = 129 /\ call.num = 255 /\ ret[1] = 2 /\ ret[3] = 0
       \/ Len(call.bytes) = 128 /\ call.num = 0 /\ ret[1] = 1 /\ ret[3] = 255
       \/ Len(call.bytes) = 0 /\ ret[1] = 1 /\ call.num = 128

\* The blocks of frames k.., one after the other.
RECURSIVE JoinBlocks(_, _)
JoinBlocks(frames, k) ==
    IF k > Len(frames) THEN <<>>
    ELSE BlockOf(frames[k]) \o JoinBlocks(frames, k + 1)

\* C14: padding round trip.  For content of length n <= 1024 the padded
\* block is 128 or 1024 bytes, its first n bytes are the content and all the
\* others are zero; and the blocks of a plan's payload frames, joined in
\* plan order and cut to the length of the payload, are the payload.
C14_PaddingRoundTrip ==
    /\ Returned("_pad_data")
         => LET n == Len(call.bytes)
            IN  /\ n <= 1024
                /\ Len(ret) = IF n <= 128 THEN 128 ELSE 1024
                /\ SubSeq(ret, 1, n) = call.bytes
                /\ \A i \in (n + 1)..Len(ret) : ret[i] = 0
    /\ (Returned("get_transfer_chunks") /\ pc = "unit")
         => LET joined == JoinBlocks(PayloadFrames, 1)
            IN  /\ Len(joined) >= Len(data)
                /\ SubSeq(joined, 1, Len(data)) = data
                /\ \A i \in (Len(data) + 1)..Len(joined) : joined[i] = 0

\* 129 bytes were padded to 1024, and a payload of a full block and one
\* byte was planned behind a header.
C14_Witness ==
    \/ Returned("_pad_data") /\ Len(call.bytes) = 129 /\ Len(ret) = 1024
    \/ /\ Returned("get_transfer_chunks")
       /\ pc = "unit"
       /\ Len(data) = LargeBlock + 1
       /\ header # NoneBytes

\* C15: checksum equivalence.  For every byte string, every 16-bit initial
\* value and every 16-bit polynomial (0x1021 and others), calc_crc16, with
\* its 24-bit working value and 16 shift steps per byte, returns what the
\* usual CRC-16/XMODEM computation on 16 bits with 8 shift steps per byte
\* returns, a value in 0..0xFFFF; for "123456789", polynomial 0x1021 and
\* initial value 0 that is the published check value 0x31C3.
C15_ChecksumEquivalence ==
    Returned("calc_crc16")
        => /\ Len(ret) = 1
           /\ ret[1] \in 0..65535
           /\ ret[1] = RefCrc16(call.bytes, call.num, polynomial)
           /\ (call.bytes = CheckString /\ call.num = 0 /\ polynomial = 4129)
                => ret[1] = 12739

\* The checksum of "123456789" was computed, and one with another
\* polynomial and a non-zero initial value.
C15_Witness ==
    /\ Returned("calc_crc16")
    /\ \/ call.bytes = CheckString /\ call.num = 0 /\ polynomial = 4129 /\ ret = <<12739>>
       \/ Len(call.bytes) = 2 /\ call.num = 65535 /\ polynomial = 32773 /\ ret[1] > 0

\* The 32-bit number held big-endian in bytes i..i+3.
BE32(bytes, i) ==
    ((bytes[i] * 256 + bytes[i + 1]) * 256 + bytes[i + 2]) * 256 + bytes[i + 3]

\* The first frame of the plan is a header frame: marker 0x01, seq 1, a
\* block of 128 bytes that starts with offset, size and flags as three
\* big-endian 32-bit numbers and is zero behind them; offset is the offset
\* supplied, size the length of the payload, flags 1 iff no-verify was
\* requested (bit 0, all other bits clear).
HeaderFrameFirst ==
    /\ Len(chunks) = 1 + (Len(file) + 1023) \div 1024
    /\ chunks[1][1] = 1
    /\ chunks[1][2] = 1
    /\ chunks[1][3] = 254
    /\ Len(BlockOf(chunks[1])) = 128
    /\ BE32(BlockOf(chunks[1]), 1) = flash_offset
    /\ BE32(BlockOf(chunks[1]), 5) = Len(file)
    /\ BE32(BlockOf(chunks[1]), 9) = (IF no_verify THEN 1 ELSE 0)
    /\ \A i \in 1..12 : BlockOf(chunks[1])[i] \in 0..255
    /\ \A i \in 13..128 : BlockOf(chunks[1])[i] = 0

\* No header frame: as many frames as the payload has blocks, the first of
\* them, if any, starting with the payload's first byte.
NoHeaderFrame ==
    /\ Len(chunks) = (Len(file) + 1023) \div 1024
    /\ chunks # <<>> => chunks[1][4] = file[1]

\* C16 as claimed: flash header content, the header frame being 134 bytes long.
C16_FlashHeaderAsClaimed ==
    Planned
        => /\ flash_offset # -1 => (HeaderFrameFirst /\ Len(chunks[1]) = 134)
           /\ flash_offset = -1 => NoHeaderFrame

\* C16 as the code has it: flash header content.  When a flash offset is
\* supplied to the tool (0 included), the first frame of the plan is a
\* 128-byte-block frame (marker 0x01, seq 1, length 133) whose block starts
\* with the 12 bytes big-endian offset(4) | size(4) | flags(4) followed by
\* zeros, with the offset supplied, the payload's length in bytes, and flags
\* with bit 0 set iff no-verify was requested and no other bit set; when no
\* offset is supplied there is no header frame.
C16_FlashHeader ==
    Planned
        => /\ flash_offset # -1 => (HeaderFrameFirst /\ Len(chunks[1]) = 133)
           /\ flash_offset = -1 => NoHeaderFrame

\* main was given an offset and --no-verify, and has planned.
C16_Witness ==
    /\ Planned
    /\ entry = "main"
    /\ flash_offset = 4096
    /\ no_verify
    /\ SubSeq(chunks[1], 4, 15) = <<0, 0, 16, 0,  0, 0, 0, 1,  0, 0, 0, 1>>

\* A call of get_transfer_chunks returns in this step.
PlanReturns ==
    /\ call.method = "get_transfer_chunks"
    /\ pc = "unit"
    /\ call'.n = call.n + 1

\* C17: planning is idempotent and read-only.  A call of
\* get_transfer_chunks leaves the payload, the header and the polynomial of
\* the TransferDataCreator as they were, and every call after the first
\* returns, byte for byte, the plan the call before it returned.
C17_PlanningIdempotent ==
    [][PlanReturns
         => /\ data' = data
            /\ header' = header
            /\ polynomial' = polynomial
            /\ err' = err
            /\ call.n >= 1 => ret' = ret]_vars

\* get_transfer_chunks has returned for the second time, with a plan of a
\* header frame and two payload frames.
C17_Witness ==
    /\ Returned("get_transfer_chunks")
    /\ pc = "unit"
    /\ call.n = 2
    /\ header # NoneBytes
    /\ Len(ret) = 3

\* C18: invalid chunk size.  Building a frame from content longer than 1024
\* bytes fails with InvalidChunkSize and returns no frame, and content up to
\* 1024 bytes does not fail; and the planner, for every payload, with or
\* without a header, hands the frame builder only content of 1..1024 bytes,
\* so that planning never fails that way.
C18_InvalidChunkSize ==
    /\ (call.method \in {"_construct_single_chunk", "_pad_data"} /\ call.n >= 1)
         => /\ Len(call.bytes) > 1024 => (err = "InvalidChunkSize" /\ ret = <<-1>>)
            /\ Len(call.bytes) <= 1024 => (err = "" /\ Len(ret) >= 128)
    /\ (call.method = "get_transfer_chunks" /\ call.n >= 1)
         => /\ err = ""
            /\ \A k \in 1..Len(PayloadFrames) :
                  Len(PayloadFrames[k]) \in {133, 1029}
            /\ \A k \in 1..Len(data_parts(data)) :
                  Len(data_parts(data)[k]) \in 1..1024
            /\ header # NoneBytes => Len(header) \in 1..1024
            /\ Len(ret) = Len(data_parts(data)) + HeaderFrames

\* The frame builder was given 1025 bytes and has raised.
C18_Witness ==
    /\ call.method = "_construct_single_chunk"
    /\ call.n = 1
    /\ Len(call.bytes) = 1025
    /\ err = "InvalidChunkSize"

\* C19: checksum chaining.  For byte strings a and b and a 16-bit initial
\* value init, calc_crc16(a ++ b, init) = calc_crc16(b, calc_crc16(a, init)),
\* at whatever place the string given is cut into a and b; and calc_crc16 of
\* the empty string returns init.
C19_ChecksumChaining ==
    Returned("calc_crc16")
        => /\ \A i \in 0..Len(call.bytes) :
                 ret[1] = calc_crc16(SubSeq(call.bytes, i + 1, Len(call.bytes)),
                                     calc_crc16(SubSeq(call.bytes, 1, i), call.num,
                                                polynomial),
                                     polynomial)
           /\ call.bytes = <<>> => ret[1] = call.num

\* The checksum of "123456789" from initial value 0xFFFF: 0x29B1; and the
\* checksum of the empty string from a non-zero initial value.
C19_Witness ==
    /\ Returned("calc_crc16")
    /\ \/ /\ call.bytes = CheckString
          /\ call.num = 65535
          /\ polynomial = 4129
          /\ ret = <<10673>>
       \/ call.bytes = <<>> /\ call.num = 32768 /\ ret = <<32768>>

\* The frames acknowledged so far in the session.
Acked == IF index = 0 THEN 0 ELSE index - 1

\* The frames written so far in the session (EOT is not a frame).
FramesWritten == IF Len(written) <= Len(chunks) THEN Len(written) ELSE Len(chunks)

\* C20 as claimed: a progress report for a frame is emitted only after the
\* frame has been written and acknowledged, so that there are never more
\* reports than acknowledged frames.
C20_ProgressAfterAck ==
    Len(progress) <= Acked

\* C20 as the code has it: progress reporting precedes the write.  The
\* report for frame index i is emitted just before plan[i] is written, once
\* every earlier frame has been written and acknowledged: the reports are
\* 1, 2, ... in order, as many as frames written (one more when the write
\* itself fails), never more than the acknowledged frames and one; a frame
\* whose reply was not the acknowledge has had its report.
C20_ProgressBeforeWrite ==
    /\ progress = [k \in 1..Len(progress) |-> k]
    /\ Len(progress) <= Len(chunks)
    /\ Len(progress) \in {FramesWritten, FramesWritten + 1}
    /\ Len(progress) = FramesWritten + 1 => err = "ChannelFault"
    /\ Len(progress) <= Acked + 1
    /\ progress # <<>> => EndsWithPing(read_response)
    /\ pc \in {"read", "read_all"} => Len(progress) = Acked + 1
    /\ err = "UnexpectedReply" => (Len(progress) = index /\ Len(progress) = Acked + 1)
    /\ pc \in {"loop", "read_final", "done"} => Len(progress) = Acked

\* The second frame was announced and written, and its reply was a negative
\* acknowledge.
C20_Witness ==
    /\ err = "UnexpectedReply"
    /\ BytesOf(response) = <<NAK>>
    /\ progress = <<1, 2>>
    /\ Len(written) = 2

(***************************************************************************)
(* Properties of the runner's command line.                                *)
(***************************************************************************)
\* The values the command line gives to --flash-offset.
ForwardedOffsets ==
    {cmd[i + 1] : i \in {j \in 1..(Len(cmd) - 1) : cmd[j] = OptFlashOffset}}

\* C21: for every combination of the runner's options (--no-header set or
\* not, --flash-offset given or omitted, --no-verify set or not), whenever
\* the runner's command line contains --flash-offset, its value is an integer
\* literal that the sender's int(value, 0) accepts; the text of an absent
\* offset is never forwarded, and the sender does not reject the command line.
C21_ForwardedOffsetIsInteger ==
    /\ \A i \in 1..Len(cmd) :
           cmd[i] = OptFlashOffset => (i < Len(cmd) /\ int_literal_ok(cmd[i + 1]))
    /\ PyNone \notin ForwardedOffsets
    /\ cmd # <<>> => err # "ArgumentError"

\* When the user gave an offset, the command line carries its decimal text,
\* and the sender reads back the value the runner parsed.
C21_GivenOffsetForwarded ==
    (cmd # <<>> /\ r_args.flash_offset # NoneInt /\ ~r_args.no_header) =>
        /\ ForwardedOffsets = {decimal(r_args.flash_offset)}
        /\ int_literal_ok(decimal(r_args.flash_offset))
        /\ pc = "sender_main" => flash_offset = r_args.flash_offset

\* With --no-header the command line has no --flash-offset at all.
C21_NoHeaderForwardsNothing ==
    (cmd # <<>> /\ r_args.no_header) =>
        /\ ForwardedOffsets = {}
        /\ Len(cmd) = 6
        /\ pc = "sender_main" => (flash_offset = NoneInt /\ ~no_verify)

\* Without --no-header and without --flash-offset the sender was started
\* with "--flash-offset None" and rejected it.
C21_AbsentOffsetForwarded ==
    /\ ~r_argv.no_header
    /\ ~r_argv.flash_offset.given
    /\ ForwardedOffsets = {PyNone}
    /\ pc = "failed"
    /\ err = "ArgumentError"

=============================================================================
